---- MODULE Spec2Model ----
(***************************************************************************)
(* A model of the Game of Life engine: the Grid class (grid.cpp), a dense  *)
(* row-major store of cells with resize, crop, merge and rotate, and the   *)
(* World class (world.cpp), two equally sized grids and the stepper.       *)
(*                                                                         *)
(* A Grid object is the record [width, height, grid], grid being the       *)
(* std::vector<Cell> as a sequence (vector index t is sequence index t+1). *)
(* A member function that can throw is an operator returning a record with *)
(* the field err (OK, or the exception type thrown) next to the object's   *)
(* state after the call and the value returned.                            *)
(***************************************************************************)
EXTENDS Integers, Sequences, FiniteSets, TLC

\* Largest width and height of the Grid object the grid operations act on.
GridMaxW == 2
GridMaxH == 2
\* Largest width and height of the other grid handed to merge.
OtherMaxW == 2
OtherMaxH == 1
\* Largest width and height of a World.
WorldMaxW == 2
WorldMaxH == 2
\* Largest width and height of a merge target taller than it is wide.
TallMaxW == 1
TallMaxH == 3
\* Largest magnitude of the rotation handed to rotate.
MaxRot == 5
\* Largest number of steps handed to advance.
MaxSteps == 2
\* Largest width and height of the world the glider is placed in, and the
\* number of step() calls the glider scenario makes.
GliderMaxW == 7
GliderMaxH == 7
GliderMaxSteps == 8
\* Largest width and height of a grid written to or declared by a binary
\* file, and the largest number of data bytes of a binary file read that no
\* save wrote.
BinMaxW == 4
BinMaxH == 2
BinMaxData == 2
\* Largest width and height of a grid written to a text file.
AsciiMaxW == 2
AsciiMaxH == 2
\* Largest width and height of a world whose border is DEAD at first.
BorderMaxW == 4
BorderMaxH == 4

\* enum Cell : char { DEAD = ' ', ALIVE = '#' }
DEAD == " "
ALIVE == "#"
Cell == {DEAD, ALIVE}

\* Outcome of a call: completed, or the type of the exception it threw.
OK == "ok"
StdException == "std::exception"
RuntimeError == "std::runtime_error"

Min(a, b) == IF a < b THEN a ELSE b

(***************************************************************************)
(* Grid                                                                    *)
(***************************************************************************)

\* Grid::Grid(width, height): width*height cells, all DEAD.
Grid(width, height) ==
    [width |-> width, height |-> height,
     grid |-> [t \in 1..(width * height) |-> DEAD]]

\* What a call that threw hands back in place of a grid: nothing.
NoGrid == [width |-> -1, height |-> -1, grid |-> <<>>]

\* Every Grid object with dimensions up to maxw x maxh (as sets of inputs).
Grids(maxw, maxh) ==
    UNION {
        { [width |-> w, height |-> h, grid |-> cells] :
              cells \in [1..(w * h) -> Cell] } :
        <<w, h>> \in (0..maxw) \X (0..maxh) }

\* The Grid objects handed to merge as `other`: every size up to maxw x maxh,
\* filled with DEAD, with ALIVE, or with one of the two checkerboards, so
\* that each cell of `other` meets each cell value of the target. Up to two
\* cells these are all the grids there are.
Others(maxw, maxh) ==
    UNION {
        { [width |-> w, height |-> h,
           grid |-> [t \in 1..(w * h) |->
                        IF fill = "board"
                        THEN (IF (((t - 1) % w) + ((t - 1) \div w) + phase) % 2 = 0
                              THEN ALIVE ELSE DEAD)
                        ELSE (IF phase = 0 THEN ALIVE ELSE DEAD)]] :
              <<fill, phase>> \in {"same", "board"} \X {0, 1} } :
        <<w, h>> \in (0..maxw) \X (0..maxh) }

get_width(g) == g.width
get_height(g) == g.height

\* Grid::get_total_cells
get_total_cells(g) == g.width * g.height

\* Grid::get_alive_cells: std::count over the stored cells.
get_alive_cells(g) == Cardinality({t \in 1..Len(g.grid) : g.grid[t] = ALIVE})

\* Grid::get_dead_cells
get_dead_cells(g) == get_total_cells(g) - get_alive_cells(g)

\* Grid::get_index
get_index(g, x, y) == y * g.width + x

\* The bounds test shared by get, set and operator(): the call throws when
\* this holds.
OutOfBounds(g, x, y) ==
    (x >= g.width \/ x < 0) \/ (y >= g.height \/ y < 0)

\* Grid::operator()(x, y), read through the returned reference.
\* [err, val]
CallRead(g, x, y) ==
    IF OutOfBounds(g, x, y)
    THEN [err |-> RuntimeError, val |-> DEAD]
    ELSE [err |-> OK, val |-> g.grid[get_index(g, x, y) + 1]]

\* Grid::operator()(x, y) = value, a write through the returned reference.
\* [err, g]
CallAssign(g, x, y, value) ==
    IF OutOfBounds(g, x, y)
    THEN [err |-> RuntimeError, g |-> g]
    ELSE [err |-> OK,
          g |-> [g EXCEPT !.grid[get_index(g, x, y) + 1] = value]]

\* Grid::get(x, y). [err, val]
get(g, x, y) ==
    IF OutOfBounds(g, x, y)
    THEN [err |-> StdException, val |-> DEAD]
    ELSE CallRead(g, x, y)

\* set without its throw: a write outside the grid is dropped silently.
set_NoThrow(g, x, y, value) ==
    IF OutOfBounds(g, x, y)
    THEN [err |-> OK, g |-> g]
    ELSE CallAssign(g, x, y, value)

\* Grid::set(x, y, value). [err, g]
set(g, x, y, value) ==
    IF OutOfBounds(g, x, y)
    THEN [err |-> StdException, g |-> g]
    ELSE CallAssign(g, x, y, value)

\* resize_body copying the cells in the order of the old vector, the
\* mapping to the new width forgotten.
resize_body_NoRemap(this, acc, i, j, new_width) ==
    LET idx == j + (i * this.width)
        rd == get(this, j, i)
    IN  IF rd.err # OK
        THEN [err |-> rd.err, g |-> acc.g]
        ELSE CallAssign(acc.g, idx % new_width, idx \div new_width, rd.val)

\* The body of both copy loops of Grid::resize, for source cell (j, i):
\* g(newX, newY) = this->get(j, i). acc is [err, g], g the local new grid.
resize_body(this, acc, i, j, new_width) ==
    LET idx == j + (i * new_width)
        newX == idx % new_width
        newY == (idx - j) \div new_width
        rd == get(this, j, i)
    IN  IF rd.err # OK
        THEN [err |-> rd.err, g |-> acc.g]
        ELSE CallAssign(acc.g, newX, newY, rd.val)

\* The nested for loops of Grid::resize, i in [0, rows) outside and
\* j in [0, cols) inside, from iteration k on; a throw ends the loops.
RECURSIVE resize_loop(_, _, _, _, _, _)
resize_loop(this, acc, rows, cols, new_width, k) ==
    IF k >= rows * cols \/ acc.err # OK
    THEN acc
    ELSE resize_loop(this,
                     resize_body(this, acc, k \div cols, k % cols, new_width),
                     rows, cols, new_width, k + 1)

\* Grid::resize(new_width, new_height). [err, g]: the fields are assigned
\* only after the loops, so a throw leaves the object as it was.
resize(this, new_width, new_height) ==
    LET g0 == [err |-> OK, g |-> Grid(new_width, new_height)]
        r == IF new_width * new_height < this.width * get_height(this)
             THEN resize_loop(this, g0, new_height, new_width, new_width, 0)
             ELSE resize_loop(this, g0, this.height, this.width, new_width, 0)
    IN  IF r.err # OK
        THEN [err |-> r.err, g |-> this]
        ELSE [err |-> OK,
              g |-> [width |-> new_width, height |-> new_height,
                     grid |-> r.g.grid]]

\* crop_body reading the source at the target's coordinates, the window's
\* origin forgotten.
crop_body_NoOrigin(this, acc, i, j, new_i, new_j) ==
    LET rd == get(this, new_j, new_i)
    IN  IF rd.err # OK
        THEN [err |-> rd.err, g |-> acc.g]
        ELSE IF rd.val = ALIVE
             THEN CallAssign(acc.g, new_j, new_i, ALIVE)
             ELSE acc

\* The body of the copy loops of Grid::crop for source cell (j, i) and
\* target cell (new_j, new_i). acc is [err, g].
crop_body(this, acc, i, j, new_i, new_j) ==
    LET rd == get(this, j, i)
    IN  IF rd.err # OK
        THEN [err |-> rd.err, g |-> acc.g]
        ELSE IF rd.val = ALIVE
             THEN CallAssign(acc.g, new_j, new_i, ALIVE)
             ELSE acc

\* The nested for loops of Grid::crop over the window, from iteration k on.
RECURSIVE crop_loop(_, _, _, _, _, _, _)
crop_loop(this, acc, x0, y0, x1, y1, k) ==
    IF k >= (y1 - y0) * (x1 - x0) \/ acc.err # OK
    THEN acc
    ELSE LET new_i == k \div (x1 - x0)
             new_j == k % (x1 - x0)
         IN  crop_loop(this,
                       crop_body(this, acc, y0 + new_i, x0 + new_j, new_i, new_j),
                       x0, y0, x1, y1, k + 1)

\* crop_fields with the assignment of the cells forgotten.
crop_fields_KeepCells(this, g) ==
    [width |-> g.width, height |-> g.height, grid |-> this.grid]

\* The fields of the receiver after a completed Grid::crop, given the
\* receiver before the call and the local grid g the loops filled.
crop_fields(this, g) ==
    [width |-> g.width, height |-> g.height, grid |-> g.grid]

\* crop_rejects with the test x1 > get_width() forgotten.
crop_rejects_NoX1Upper(this, x0, y0, x1, y1) ==
    \/ \/ x0 > get_width(this) \/ x0 < 0
       \/ x1 < 0
       \/ y0 > get_height(this) \/ y0 < 0
       \/ y1 > get_height(this) \/ y1 < 0
    \/ (x1 - x0 < 0 \/ y1 - y0 < 0)

\* The two argument tests at the head of Grid::crop (a coordinate outside
\* the grid, a window of negative size): the call throws when this holds.
crop_rejects(this, x0, y0, x1, y1) ==
    \/ \/ x0 > get_width(this) \/ x0 < 0
       \/ x1 > get_width(this) \/ x1 < 0
       \/ y0 > get_height(this) \/ y0 < 0
       \/ y1 > get_height(this) \/ y1 < 0
    \/ (x1 - x0 < 0 \/ y1 - y0 < 0)

\* Grid::crop(x0, y0, x1, y1). [err, g, ret]: g is the receiver after the
\* call, ret the grid returned.
crop(this, x0, y0, x1, y1) ==
    IF crop_rejects(this, x0, y0, x1, y1)
    THEN [err |-> RuntimeError, g |-> this, ret |-> NoGrid]
    ELSE LET cropped_width == x1 - x0
             cropped_height == y1 - y0
             r == crop_loop(this,
                            [err |-> OK,
                             g |-> Grid(cropped_width, cropped_height)],
                            x0, y0, x1, y1, 0)
         IN  IF r.err # OK
             THEN [err |-> r.err, g |-> this, ret |-> NoGrid]
             ELSE [err |-> OK, g |-> crop_fields(this, r.g), ret |-> r.g]

\* The two argument tests at the head of both Grid::merge overloads: the
\* call throws when this holds.
merge_rejects(this, other, x0, y0) ==
    \/ get_width(other) > get_width(this) \/ get_height(other) > get_height(this)
    \/ (x0 < 0 \/ x0 > get_width(this)) \/ y0 < 0 \/ y0 > get_width(this)

\* The value Grid::merge(other, x0, y0) writes to a target cell, from the
\* matching cell of the other grid.
merge_value(otherCell) == IF otherCell = ALIVE THEN ALIVE ELSE DEAD

\* The value the alive_only overload writes to a target cell, from the
\* matching cell of the other grid and the target cell before the write.
merge_alive_value(otherCell, thisCell) ==
    IF \/ (otherCell = DEAD /\ thisCell = ALIVE)
       \/ (otherCell = ALIVE /\ thisCell = DEAD)
    THEN ALIVE
    ELSE DEAD

\* The body of the loops of either merge overload for target cell (j, i)
\* and other cell (new_j, new_i). acc is [err, g], g the receiver, which
\* the loops write in place.
merge_body(acc, other, i, j, new_i, new_j, alive_only) ==
    LET o == get(other, new_j, new_i)
        t == get(acc.g, j, i)
    IN  IF o.err # OK
        THEN [err |-> o.err, g |-> acc.g]
        ELSE IF alive_only
             THEN IF t.err # OK
                  THEN [err |-> t.err, g |-> acc.g]
                  ELSE CallAssign(acc.g, j, i, merge_alive_value(o.val, t.val))
             ELSE CallAssign(acc.g, j, i, merge_value(o.val))

\* The nested for loops of either merge overload, new_i in
\* [0, other.height) outside and new_j in [0, other.width) inside, from
\* iteration k on; a throw ends the loops and keeps the writes made.
RECURSIVE merge_loop(_, _, _, _, _, _)
merge_loop(acc, other, x0, y0, alive_only, k) ==
    IF k >= get_height(other) * get_width(other) \/ acc.err # OK
    THEN acc
    ELSE LET new_i == k \div get_width(other)
             new_j == k % get_width(other)
         IN  merge_loop(merge_body(acc, other, y0 + new_i, x0 + new_j,
                                   new_i, new_j, alive_only),
                        other, x0, y0, alive_only, k + 1)

\* Grid::merge(other, x0, y0). [err, g]
merge(this, other, x0, y0) ==
    IF merge_rejects(this, other, x0, y0)
    THEN [err |-> RuntimeError, g |-> this]
    ELSE merge_loop([err |-> OK, g |-> this], other, x0, y0, FALSE, 0)

\* Grid::merge(other, x0, y0, alive_only). [err, g]
merge_alive_only(this, other, x0, y0, alive_only) ==
    IF ~alive_only
    THEN merge(this, other, x0, y0)
    ELSE IF merge_rejects(this, other, x0, y0)
         THEN [err |-> RuntimeError, g |-> this]
         ELSE merge_loop([err |-> OK, g |-> this], other, x0, y0, TRUE, 0)

\* The loops of either merge overload when other is the receiver itself,
\* grid.merge(grid, ...): every read of other sees the writes made so far.
RECURSIVE merge_self_loop(_, _, _, _, _)
merge_self_loop(acc, x0, y0, alive_only, k) ==
    IF k >= get_height(acc.g) * get_width(acc.g) \/ acc.err # OK
    THEN acc
    ELSE LET new_i == k \div get_width(acc.g)
             new_j == k % get_width(acc.g)
         IN  merge_self_loop(merge_body(acc, acc.g, y0 + new_i, x0 + new_j,
                                        new_i, new_j, alive_only),
                             x0, y0, alive_only, k + 1)

\* this->merge(*this, x0, y0, alive_only): both overloads make the same
\* tests, alive_only chooses the value written. [err, g]
merge_self(this, x0, y0, alive_only) ==
    IF merge_rejects(this, this, x0, y0)
    THEN [err |-> RuntimeError, g |-> this]
    ELSE merge_self_loop([err |-> OK, g |-> this], x0, y0, alive_only, 0)

\* actual_rotation with the sign of the rotation dropped before the loop.
RECURSIVE actual_rotation_Abs(_)
actual_rotation_Abs(rotation) ==
    IF rotation < 0
    THEN actual_rotation_Abs(-rotation)
    ELSE IF rotation \in {0, 1, 2}
         THEN rotation
         ELSE IF rotation = 3 THEN -1 ELSE actual_rotation_Abs(rotation - 4)

\* The normalisation loop of Grid::rotate: actual_rotation is moved by 4
\* towards zero until it is one of 0, 1, -1, 2, -2.
RECURSIVE actual_rotation(_)
actual_rotation(rotation) ==
    IF rotation \in {0, 1, -1, 2, -2}
    THEN rotation
    ELSE IF rotation > 0
         THEN actual_rotation(rotation - 4)
         ELSE actual_rotation(rotation + 4)

\* The number of iterations the normalisation loop of Grid::rotate runs
\* for a rotation: one for each move by 4.
RECURSIVE normalisation_steps(_)
normalisation_steps(rotation) ==
    IF rotation \in {0, 1, -1, 2, -2}
    THEN 0
    ELSE IF rotation > 0
         THEN 1 + normalisation_steps(rotation - 4)
         ELSE 1 + normalisation_steps(rotation + 4)

Abs(n) == IF n < 0 THEN -n ELSE n

\* rotate_loop_180 mirroring the columns only: new_i is left at i.
RECURSIVE rotate_loop_180_FlipX(_, _, _)
rotate_loop_180_FlipX(this, acc, k) ==
    IF k >= this.height * this.width \/ acc.err # OK
    THEN acc
    ELSE LET i == k \div this.width
             j == k % this.width
             new_j == (this.width - 1) - j
             rd == CallRead(this, new_j, i)
         IN  rotate_loop_180_FlipX(this,
                 IF rd.err # OK
                 THEN [err |-> rd.err, g |-> acc.g]
                 ELSE CallAssign(acc.g, j, i, rd.val),
                 k + 1)

\* The copy loops of the 180 degree case of Grid::rotate, from iteration
\* k on: newgrid(j, i) = (*this)(new_j, new_i). acc is [err, g].
RECURSIVE rotate_loop_180(_, _, _)
rotate_loop_180(this, acc, k) ==
    IF k >= this.height * this.width \/ acc.err # OK
    THEN acc
    ELSE LET i == k \div this.width
             j == k % this.width
             new_i == (this.height - 1) - i
             new_j == (this.width - 1) - j
             rd == CallRead(this, new_j, new_i)
         IN  rotate_loop_180(this,
                 IF rd.err # OK
                 THEN [err |-> rd.err, g |-> acc.g]
                 ELSE CallAssign(acc.g, j, i, rd.val),
                 k + 1)

\* rotate_loop_90 leaving the loops one cell early: the last cell of
\* newgrid is never assigned.
RECURSIVE rotate_loop_90_Short(_, _, _, _)
rotate_loop_90_Short(this, acc, actual, k) ==
    IF k >= (acc.g.height * acc.g.width) - 1 \/ acc.err # OK
    THEN acc
    ELSE LET i == k \div acc.g.width
             j == k % acc.g.width
             new_i == (this.width - 1) - i
             new_j == (acc.g.width - 1) - j
             rd == IF actual > 0
                   THEN CallRead(this, i, new_j)
                   ELSE CallRead(this, new_i, j)
         IN  rotate_loop_90_Short(this,
                 IF rd.err # OK
                 THEN [err |-> rd.err, g |-> acc.g]
                 ELSE CallAssign(acc.g, j, i, rd.val),
                 actual, k + 1)

\* The copy loops of the 90 degree cases of Grid::rotate, from iteration
\* k on: clockwise newgrid(j, i) = (*this)(i, new_j), counter-clockwise
\* newgrid(j, i) = (*this)(new_i, j). acc is [err, g], g being newgrid.
RECURSIVE rotate_loop_90(_, _, _, _)
rotate_loop_90(this, acc, actual, k) ==
    IF k >= acc.g.height * acc.g.width \/ acc.err # OK
    THEN acc
    ELSE LET i == k \div acc.g.width
             j == k % acc.g.width
             new_i == (this.width - 1) - i
             new_j == (acc.g.width - 1) - j
             rd == IF actual > 0
                   THEN CallRead(this, i, new_j)
                   ELSE CallRead(this, new_i, j)
         IN  rotate_loop_90(this,
                 IF rd.err # OK
                 THEN [err |-> rd.err, g |-> acc.g]
                 ELSE CallAssign(acc.g, j, i, rd.val),
                 actual, k + 1)

\* Grid::rotate(rotation). [err, ret]: the function is const, the receiver
\* is not written.
rotate(this, rotation) ==
    LET actual == actual_rotation(rotation)
    IN  IF actual = 0 \/ Abs(actual) % 4 = 0
        THEN [err |-> OK, ret |-> this]
        ELSE LET r == IF Abs(actual) % 2 = 0
                      THEN rotate_loop_180(this,
                               [err |-> OK, g |-> Grid(this.width, this.height)], 0)
                      ELSE rotate_loop_90(this,
                               [err |-> OK, g |-> Grid(this.height, this.width)],
                               actual, 0)
             IN  [err |-> r.err, ret |-> IF r.err = OK THEN r.g ELSE NoGrid]

(***************************************************************************)
(* World                                                                   *)
(***************************************************************************)

\* World::World(width, height): both buffers dead. A world is the record
\* [current, next].
World(width, height) ==
    [current |-> Grid(width, height), next |-> Grid(width, height)]

\* World::World(initial_state)
WorldFrom(initial_state) ==
    [current |-> initial_state,
     next |-> Grid(get_width(initial_state), get_height(initial_state))]

\* toroidal_coord sending an underflow to coordinate 0 instead of wrapping
\* it to the far edge.
toroidal_coord_Clamp(c, size) ==
    IF c < 0 THEN 0 ELSE (c + size) % size

\* toroidal_coord wrapping one cell short: the coordinate before the one
\* on the opposite edge.
toroidal_coord_Inward(c, size) ==
    LET offset == IF c < 0 THEN ((-c) \div size) + 1 ELSE 1
    IN  ((c + size * offset) - 1) % size

\* The coordinate, on one axis, that World::count_alive_neighbours reads
\* for an out of bounds neighbour at c (= x + new_j or y + new_i) of a
\* toroidal world of extent size on that axis.
toroidal_coord(c, size) ==
    LET offset == IF c < 0 THEN ((-c) \div size) + 1 ELSE 1
    IN  (c + size * offset) % size

\* neighbour_cell with the test of toroidal forgotten: an out of bounds
\* neighbour is always wrapped.
neighbour_cell_AlwaysWrap(current, x, y, new_i, new_j, toroidal) ==
    IF \/ (x + new_j >= get_width(current) \/ x + new_j < 0)
       \/ (y + new_i >= get_height(current) \/ y + new_i < 0)
    THEN CallRead(current,
                  toroidal_coord(x + new_j, get_width(current)),
                  toroidal_coord(y + new_i, get_height(current)))
    ELSE CallRead(current, x + new_j, y + new_i)

\* The cell World::count_alive_neighbours stores in neighbours(j, i) for
\* the neighbour at offset (new_j, new_i) of (x, y). [err, val]
neighbour_cell(current, x, y, new_i, new_j, toroidal) ==
    IF \/ (x + new_j >= get_width(current) \/ x + new_j < 0)
       \/ (y + new_i >= get_height(current) \/ y + new_i < 0)
    THEN IF ~toroidal
         THEN [err |-> OK, val |-> DEAD]
         ELSE CallRead(current,
                       toroidal_coord(x + new_j, get_width(current)),
                       toroidal_coord(y + new_i, get_height(current)))
    ELSE CallRead(current, x + new_j, y + new_i)

\* neighbours_reads with the centre read like every other cell.
neighbours_reads_WithCentre(current, x, y, toroidal) ==
    [t \in 1..9 |->
        neighbour_cell(current, x, y, ((t - 1) \div 3) - 1, ((t - 1) % 3) - 1,
                       toroidal)]

\* What the loops of World::count_alive_neighbours read for each cell of
\* the 3x3 grid neighbours, cell (j, i) at index 3 * i + j + 1: the
\* neighbour at offset (j - 1, i - 1). The centre (1, 1) is skipped.
neighbours_reads(current, x, y, toroidal) ==
    [t \in 1..9 |->
        LET i == (t - 1) \div 3
            j == (t - 1) % 3
        IN  IF i = 1 /\ j = 1
            THEN [err |-> OK, val |-> DEAD]
            ELSE neighbour_cell(current, x, y, i - 1, j - 1, toroidal)]

\* World::count_alive_neighbours(x, y, toroidal). [err, val]: neighbours
\* is constructed all DEAD, its centre is set DEAD, every other cell is
\* assigned what the loops read, and its alive cells are counted.
count_alive_neighbours(current, x, y, toroidal) ==
    LET reads == neighbours_reads(current, x, y, toroidal)
        neighbours == [width |-> 3, height |-> 3,
                       grid |-> [t \in 1..9 |-> reads[t].val]]
    IN  [err |-> IF \E t \in 1..9 : reads[t].err # OK THEN RuntimeError ELSE OK,
         val |-> get_alive_cells(neighbours)]

\* step_cell with the underpopulation test off by one (n < 1 for n < 2).
step_cell_Under1(current, j, i, toroidal) ==
    LET n == count_alive_neighbours(current, j, i, toroidal).val
        c == CallRead(current, j, i).val
    IN  IF c = DEAD
        THEN IF n = 3 THEN ALIVE ELSE c
        ELSE IF n < 1 \/ n > 3 THEN DEAD ELSE c

\* step_cell with the overpopulation test off by one (n > 4 for n > 3).
step_cell_Over4(current, j, i, toroidal) ==
    LET n == count_alive_neighbours(current, j, i, toroidal).val
        c == CallRead(current, j, i).val
    IN  IF c = DEAD
        THEN IF n = 3 THEN ALIVE ELSE c
        ELSE IF n < 2 \/ n > 4 THEN DEAD ELSE c

\* The decision World::step takes for cell (j, i): the value it leaves in
\* next(j, i), which holds the copy of current(j, i) before the decision.
step_cell(current, j, i, toroidal) ==
    LET n == count_alive_neighbours(current, j, i, toroidal).val
        c == CallRead(current, j, i).val
    IN  IF c = DEAD
        THEN IF n = 3 THEN ALIVE ELSE c
        ELSE IF n < 2 \/ n > 3 THEN DEAD ELSE c

\* step_body writing its decision to current as well as to next.
step_body_InPlace(acc, j, i, toroidal) ==
    IF CallRead(acc.current, j, i).val = DEAD
    THEN IF count_alive_neighbours(acc.current, j, i, toroidal).val = 3
         THEN [current |-> CallAssign(acc.current, j, i, ALIVE).g,
               next |-> CallAssign(acc.next, j, i, ALIVE).g]
         ELSE acc
    ELSE IF \/ count_alive_neighbours(acc.current, j, i, toroidal).val < 2
            \/ count_alive_neighbours(acc.current, j, i, toroidal).val > 3
         THEN [current |-> CallAssign(acc.current, j, i, DEAD).g,
               next |-> CallAssign(acc.next, j, i, DEAD).g]
         ELSE acc

\* The body of the loops of World::step for cell (j, i), on the two
\* buffers acc = [current, next] as the iterations before left them.
step_body(acc, j, i, toroidal) ==
    IF CallRead(acc.current, j, i).val = DEAD
    THEN IF count_alive_neighbours(acc.current, j, i, toroidal).val = 3
         THEN [acc EXCEPT !.next = CallAssign(acc.next, j, i, ALIVE).g]
         ELSE acc
    ELSE IF \/ count_alive_neighbours(acc.current, j, i, toroidal).val < 2
            \/ count_alive_neighbours(acc.current, j, i, toroidal).val > 3
         THEN [acc EXCEPT !.next = CallAssign(acc.next, j, i, DEAD).g]
         ELSE acc

\* The loops of World::step, rows outside and columns inside, from
\* iteration k up to iteration n (n left out): the two buffers after them.
RECURSIVE step_loop(_, _, _, _)
step_loop(acc, toroidal, k, n) ==
    IF k >= n
    THEN acc
    ELSE step_loop(step_body(acc, k % get_width(acc.current),
                             k \div get_width(acc.current), toroidal),
                   toroidal, k + 1, n)

\* The two buffers of world w after this->next = this->current and the
\* first n iterations of the loops of World::step.
step_partial(w, toroidal, n) ==
    step_loop([current |-> w.current, next |-> w.current], toroidal, 0, n)

\* The grid next once the loops of World::step are through: next starts as
\* a copy of current, and the iteration for (j, i) reads current only and
\* writes next(j, i) only.
step_next(current, toroidal) ==
    [width |-> current.width, height |-> current.height,
     grid |-> [t \in 1..Len(current.grid) |->
                  step_cell(current, (t - 1) % current.width,
                            (t - 1) \div current.width, toroidal)]]

\* World::get_state(): the reference returned is this->current itself, its
\* const cast away.
get_state(w) == w.current

\* World::step(toroidal): next = current, the loops, then std::swap.
\* [err, w]
step(w, toroidal) ==
    [err |-> OK,
     w |-> [current |-> step_next(w.current, toroidal), next |-> w.current]]

\* advance_loop leaving the for loop one iteration early.
RECURSIVE advance_loop_EarlyExit(_, _, _, _)
advance_loop_EarlyExit(acc, steps, toroidal, i) ==
    IF i >= steps - 1 \/ acc.err # OK
    THEN acc
    ELSE advance_loop_EarlyExit(step(acc.w, toroidal), steps, toroidal, i + 1)

\* World::advance(steps, toroidal): the for loop from iteration i on.
RECURSIVE advance_loop(_, _, _, _)
advance_loop(acc, steps, toroidal, i) ==
    IF i >= steps \/ acc.err # OK
    THEN acc
    ELSE advance_loop(step(acc.w, toroidal), steps, toroidal, i + 1)

\* World::advance(steps, toroidal). [err, w]
advance(w, steps, toroidal) ==
    advance_loop([err |-> OK, w |-> w], steps, toroidal, 0)

\* resize_next with the reallocation of next forgotten.
resize_next_Keep(w, new_width, new_height) == w.next

\* The next buffer World::resize leaves once current is resized.
resize_next(w, new_width, new_height) == Grid(new_width, new_height)

\* World_resize handing next a copy of the resized current.
World_resize_NextFromCurrent(w, new_width, new_height) ==
    LET r == resize(w.current, new_width, new_height)
    IN  IF r.err # OK
        THEN [err |-> r.err, w |-> w]
        ELSE [err |-> OK, w |-> [current |-> r.g, next |-> r.g]]

\* World::resize(new_width, new_height). [err, w]: a throw of
\* Grid::resize leaves before next is assigned.
World_resize(w, new_width, new_height) ==
    LET r == resize(w.current, new_width, new_height)
    IN  IF r.err # OK
        THEN [err |-> r.err, w |-> w]
        ELSE [err |-> OK,
              w |-> [current |-> r.g,
                     next |-> resize_next(w, new_width, new_height)]]

(***************************************************************************)
(* Zoo                                                                     *)
(***************************************************************************)

\* Zoo::glider(): Grid g(3), then five cells assigned ALIVE through
\* operator().
Zoo_glider ==
    LET g0 == Grid(3, 3)
        g1 == CallAssign(g0, 1, 0, ALIVE).g
        g2 == CallAssign(g1, 2, 1, ALIVE).g
        g3 == CallAssign(g2, 0, 2, ALIVE).g
        g4 == CallAssign(g3, 1, 2, ALIVE).g
    IN  CallAssign(g4, 2, 2, ALIVE).g

\* The four bytes file.write((char *) &n, sizeof(int)) writes for an int
\* n >= 0, lowest byte first.
IntBytes(n) ==
    <<n % 256, (n \div 256) % 256, (n \div 65536) % 256, (n \div 16777216) % 256>>

\* The int bFile.read(reinterpret_cast<char *>(&n), sizeof(int)) reads from
\* the four bytes at position p (from 1) of a file.
ReadInt(f, p) ==
    f[p] + (256 * f[p + 1]) + (65536 * f[p + 2])
        + (16777216 * (IF f[p + 3] >= 128 THEN f[p + 3] - 256 ELSE f[p + 3]))

\* The byte std::bitset<8> holds in its first char: bit k is bitset[k + 1].
BitsetByte(bitset) ==
    bitset[1] + (2 * bitset[2]) + (4 * bitset[3]) + (8 * bitset[4])
        + (16 * bitset[5]) + (32 * bitset[6]) + (64 * bitset[7]) + (128 * bitset[8])

\* The body of the loops of Zoo::save_binary for cell (j, i). acc is
\* [out, bitset, bitset_count, current_bytes], out the bytes written after
\* the header so far. content_bytes - current_bytes is an unsigned
\* difference: below zero it wraps to 2^32 minus something small, never to 1.
save_binary_body(acc, grid0, i, j, content_bytes) ==
    LET bit == IF CallRead(grid0, j, i).val = ALIVE THEN 1 ELSE 0
        bitset == [acc.bitset EXCEPT ![acc.bitset_count + 1] = bit]
        bitset_count == acc.bitset_count + 1
    IN  IF \/ bitset_count = 8
           \/ content_bytes - acc.current_bytes = 1
        THEN [out |-> Append(acc.out, BitsetByte(bitset)),
              bitset |-> bitset,
              bitset_count |-> 0,
              current_bytes |-> IF bitset_count = 8
                                THEN acc.current_bytes + 1
                                ELSE acc.current_bytes]
        ELSE [out |-> acc.out,
              bitset |-> bitset,
              bitset_count |-> bitset_count,
              current_bytes |-> acc.current_bytes]

\* The nested for loops of Zoo::save_binary, rows outside and columns
\* inside, from iteration k on.
RECURSIVE save_binary_loop(_, _, _, _)
save_binary_loop(acc, grid0, content_bytes, k) ==
    IF k >= get_width(grid0) * get_height(grid0)
    THEN acc
    ELSE save_binary_loop(
             save_binary_body(acc, grid0, k \div get_width(grid0),
                              k % get_width(grid0), content_bytes),
             grid0, content_bytes, k + 1)

\* Zoo::save_binary(path, grid), the file opening. [err, file]: the bytes
\* the file holds afterwards.
save_binary(grid0) ==
    LET width == get_width(grid0)
        height == get_height(grid0)
        padding == (width * height) % 8
        content_bytes == ((width * height) + padding) \div 8
        r == save_binary_loop([out |-> <<>>,
                               bitset |-> <<0, 0, 0, 0, 0, 0, 0, 0>>,
                               bitset_count |-> 0,
                               current_bytes |-> 0],
                              grid0, content_bytes, 0)
    IN  [err |-> OK, file |-> IntBytes(width) \o IntBytes(height) \o r.out]

\* The loop of Zoo::load_binary that writes the bits read to the grid, from
\* bit i on: bit i is bit i % 8 of data byte i / 8. acc is [err, g].
RECURSIVE load_binary_loop(_, _, _, _, _, _)
load_binary_loop(acc, f, width, height, size, i) ==
    IF i >= size \/ acc.err # OK
    THEN acc
    ELSE LET bit == (f[9 + (i \div 8)] \div (2 ^ (i % 8))) % 2
             x == i % width
             y == (i - x) \div width
         IN  load_binary_loop(
                 IF bit = 1 /\ ~(x = width \/ y = height)
                 THEN CallAssign(acc.g, x, y, ALIVE)
                 ELSE acc,
                 f, width, height, size, i + 1)

\* Zoo::load_binary(path) for a file that opens and holds the 8 bytes of
\* the two ints at least, both of them non-negative. [err, ret]
load_binary(f) ==
    LET size == Len(f)
        width == ReadInt(f, 1)
        height == ReadInt(f, 5)
        padding == IF (width * height) % 8 # 0 THEN (width * height) % 8 ELSE 0
        loopValue == ((width * height) + padding) \div 8
        minimal_expected_file_size == 8 + (((width * height) + padding) \div 8)
    IN  IF size < minimal_expected_file_size
        THEN [err |-> RuntimeError, ret |-> NoGrid]
        ELSE LET r == load_binary_loop([err |-> OK, g |-> Grid(width, height)],
                                       f, width, height, 8 * loopValue, 0)
             IN  [err |-> r.err, ret |-> IF r.err = OK THEN r.g ELSE NoGrid]

\* The exception std::stoi throws when its argument starts with no number.
InvalidArgument == "std::invalid_argument"

\* The characters of a text file are one-character strings: the digits,
\* the space, the newline "\n", '#', and 'x' for any other character.
AsciiDigits == <<"0", "1", "2", "3", "4", "5", "6", "7", "8", "9">>

\* The char '\0' that data[0] yields on an empty std::string.
NUL == "NUL"

IsDigit(c) == \E k \in 1..10 : AsciiDigits[k] = c

DigitValue(c) == (CHOOSE k \in 1..10 : AsciiDigits[k] = c) - 1

\* std::isspace(c) for the characters of a text file.
IsSpace(c) == c \in {" ", "\n"}

\* The characters file << n writes for an int n >= 0.
RECURSIVE ToDecimal(_)
ToDecimal(n) ==
    IF n < 10
    THEN <<AsciiDigits[n + 1]>>
    ELSE Append(ToDecimal(n \div 10), AsciiDigits[(n % 10) + 1])

\* The int a run of digits denotes.
RECURSIVE Decimal(_)
Decimal(digits) ==
    IF digits = <<>>
    THEN 0
    ELSE (10 * Decimal(SubSeq(digits, 1, Len(digits) - 1)))
             + DigitValue(digits[Len(digits)])

\* Zoo::save_ascii: the characters of row i from column j on.
RECURSIVE save_ascii_row(_, _, _)
save_ascii_row(grid0, i, j) ==
    IF j >= get_width(grid0)
    THEN <<"\n">>
    ELSE <<IF CallRead(grid0, j, i).val = ALIVE THEN "#" ELSE " ">>
             \o save_ascii_row(grid0, i, j + 1)

\* Zoo::save_ascii: the characters of the rows from row i on.
RECURSIVE save_ascii_loop(_, _)
save_ascii_loop(grid0, i) ==
    IF i >= get_height(grid0)
    THEN <<>>
    ELSE save_ascii_row(grid0, i, 0) \o save_ascii_loop(grid0, i + 1)

\* Zoo::save_ascii(path, grid), the file opening. [err, file]: the
\* characters the file holds afterwards.
save_ascii(grid0) ==
    [err |-> OK,
     file |-> ToDecimal(get_width(grid0)) \o <<" ">>
                  \o ToDecimal(get_height(grid0)) \o <<"\n">>
                  \o save_ascii_loop(grid0, 0)]

\* The position a stream at position p of file f is at after it skipped
\* white space; Len(f) + 1 is the end of the file.
RECURSIVE SkipSpace(_, _)
SkipSpace(f, p) ==
    IF p > Len(f) \/ ~IsSpace(f[p]) THEN p ELSE SkipSpace(f, p + 1)

\* The position after the word that starts at position p.
RECURSIVE WordEnd(_, _)
WordEnd(f, p) ==
    IF p > Len(f) \/ IsSpace(f[p]) THEN p ELSE WordEnd(f, p + 1)

\* The position after the digits that start at position p.
RECURSIVE DigitsEnd(_, _)
DigitsEnd(f, p) ==
    IF p > Len(f) \/ ~IsDigit(f[p]) THEN p ELSE DigitsEnd(f, p + 1)

\* The position of the newline that ends the line at position p.
RECURSIVE LineEnd(_, _)
LineEnd(f, p) ==
    IF p > Len(f) \/ f[p] = "\n" THEN p ELSE LineEnd(f, p + 1)

\* An std::ifstream on file f is [pos, eof, fail]: the position of the
\* next character (from 1), eofbit and failbit. The stream after open.
Opened == [pos |-> 1, eof |-> FALSE, fail |-> FALSE]

\* file >> data for a std::string: [is, data]. A stream that is not
\* good(), or that ends before a word starts, fails and leaves data alone.
ExtractString(f, is, data) ==
    IF is.eof \/ is.fail
    THEN [is |-> [is EXCEPT !.fail = TRUE], data |-> data]
    ELSE LET a == SkipSpace(f, is.pos)
             b == WordEnd(f, a)
         IN  IF a > Len(f)
             THEN [is |-> [pos |-> a, eof |-> TRUE, fail |-> TRUE], data |-> data]
             ELSE [is |-> [pos |-> b, eof |-> b > Len(f), fail |-> FALSE],
                   data |-> SubSeq(f, a, b - 1)]

\* file >> height for an int that is 0 before: [is, val]. No digit at the
\* position after the white space fails the stream and gives 0.
ExtractInt(f, is) ==
    IF is.eof \/ is.fail
    THEN [is |-> [is EXCEPT !.fail = TRUE], val |-> 0]
    ELSE LET a == SkipSpace(f, is.pos)
             b == DigitsEnd(f, a)
         IN  IF a > Len(f)
             THEN [is |-> [pos |-> a, eof |-> TRUE, fail |-> TRUE], val |-> 0]
             ELSE IF b = a
             THEN [is |-> [pos |-> a, eof |-> FALSE, fail |-> TRUE], val |-> 0]
             ELSE [is |-> [pos |-> b, eof |-> b > Len(f), fail |-> FALSE],
                   val |-> Decimal(SubSeq(f, a, b - 1))]

\* std::getline with white space skipped first, as operator>> skips it.
getline_SkipSpace(f, is, data) ==
    IF is.eof \/ is.fail
    THEN [is |-> [is EXCEPT !.fail = TRUE], data |-> data]
    ELSE LET a == SkipSpace(f, is.pos)
             b == LineEnd(f, a)
         IN  IF b <= Len(f)
             THEN [is |-> [pos |-> b + 1, eof |-> FALSE, fail |-> FALSE],
                   data |-> SubSeq(f, a, b - 1)]
             ELSE [is |-> [pos |-> b, eof |-> TRUE, fail |-> a > Len(f)],
                   data |-> SubSeq(f, a, Len(f))]

\* std::getline(file, data): [is, data]. The newline is read and dropped; a
\* stream that is not good() fails and leaves data alone; the end of the
\* file ends the line, and fails the stream if the line is empty.
getline(f, is, data) ==
    IF is.eof \/ is.fail
    THEN [is |-> [is EXCEPT !.fail = TRUE], data |-> data]
    ELSE LET b == LineEnd(f, is.pos)
         IN  IF b <= Len(f)
             THEN [is |-> [pos |-> b + 1, eof |-> FALSE, fail |-> FALSE],
                   data |-> SubSeq(f, is.pos, b - 1)]
             ELSE [is |-> [pos |-> b, eof |-> TRUE, fail |-> is.pos > Len(f)],
                   data |-> SubSeq(f, is.pos, Len(f))]

\* std::stoi(data) for a word data: [err, val]. The digits the word starts
\* with, whatever follows them; a word that starts with none throws.
stoi(data) ==
    IF data = <<>> \/ ~IsDigit(data[1])
    THEN [err |-> InvalidArgument, val |-> 0]
    ELSE [err |-> OK, val |-> Decimal(SubSeq(data, 1, DigitsEnd(data, 1) - 1))]

\* data[0] of a std::string.
FirstChar(data) == IF data = <<>> THEN NUL ELSE data[1]

\* data.erase(0, 1)
EraseFirst(data) == IF data = <<>> THEN data ELSE SubSeq(data, 2, Len(data))

\* The inner loop body of Zoo::load_ascii with every character that is
\* not '#' read as a DEAD cell.
load_ascii_cell_Lenient(acc, j, i) ==
    IF FirstChar(acc.data) = "#"
    THEN LET r == CallAssign(acc.g, j, i, ALIVE)
         IN  [err |-> r.err, g |-> r.g, data |-> EraseFirst(acc.data)]
    ELSE [acc EXCEPT !.data = EraseFirst(acc.data)]

\* The inner loop body of Zoo::load_ascii for cell (j, i). acc is
\* [err, g, data].
load_ascii_cell(acc, j, i) ==
    IF FirstChar(acc.data) = "#"
    THEN LET r == CallAssign(acc.g, j, i, ALIVE)
         IN  [err |-> r.err, g |-> r.g, data |-> EraseFirst(acc.data)]
    ELSE IF FirstChar(acc.data) # " "
    THEN [acc EXCEPT !.err = RuntimeError]
    ELSE [acc EXCEPT !.data = EraseFirst(acc.data)]

\* The inner loop of Zoo::load_ascii over the cells of row i, from column
\* j on; a throw ends it.
RECURSIVE load_ascii_row(_, _, _, _)
load_ascii_row(acc, width, i, j) ==
    IF j >= width \/ acc.err # OK
    THEN acc
    ELSE load_ascii_row(load_ascii_cell(acc, j, i), width, i, j + 1)

\* The outer loop of Zoo::load_ascii, from row i on: the line is read, its
\* cells are set, and anything left of the line throws. acc is
\* [err, g, is, data].
RECURSIVE load_ascii_loop(_, _, _, _, _)
load_ascii_loop(acc, f, width, height, i) ==
    IF i >= height \/ acc.err # OK
    THEN acc
    ELSE LET l == getline(f, acc.is, acc.data)
             r == load_ascii_row([err |-> OK, g |-> acc.g, data |-> l.data],
                                 width, i, 0)
         IN  load_ascii_loop(
                 [err |-> IF r.err # OK
                          THEN r.err
                          ELSE IF FirstChar(r.data) # NUL
                          THEN RuntimeError
                          ELSE OK,
                  g |-> r.g, is |-> l.is, data |-> r.data],
                 f, width, height, i + 1)

\* Zoo::load_ascii(path) for a file that opens. [err, ret]
load_ascii(f) ==
    LET t == ExtractString(f, Opened, <<>>)
        w == IF t.is.fail THEN [err |-> OK, val |-> 0] ELSE stoi(t.data)
        h == IF t.is.fail THEN [is |-> t.is, val |-> 0] ELSE ExtractInt(f, t.is)
        width == w.val
        height == h.val
    IN  IF w.err # OK
        THEN [err |-> w.err, ret |-> NoGrid]
        ELSE IF width <= 0 \/ height <= 0
        THEN [err |-> RuntimeError, ret |-> NoGrid]
        ELSE LET l == getline(f, h.is, t.data)
                 r == load_ascii_loop([err |-> OK, g |-> Grid(width, height),
                                       is |-> l.is, data |-> l.data],
                                      f, width, height, 0)
             IN  [err |-> r.err, ret |-> IF r.err = OK THEN r.g ELSE NoGrid]

(***************************************************************************)
(* The state machine: one Grid object and one World object, driven by a    *)
(* single threaded caller that makes a call, reads what came back and then *)
(* makes the next call. last is the call that has just returned, or Ready  *)
(* once the caller has read it.                                            *)
(***************************************************************************)

VARIABLES
    grid,       \* the Grid object the grid operations are called on
    current,    \* World::current
    next,       \* World::next
    last,       \* the call that has just returned: [op, args, pre, err, ret]
    pc,         \* the step() calls the glider scenario has made so far
    file        \* the content of the file at the path handed to Zoo

vars == <<grid, current, next, last, pc, file>>

\* What a void function returns.
Void == "void"

world == [current |-> current, next |-> next]

\* The record of a call: its name, its arguments, the object before the
\* call, the exception thrown (or OK) and the value returned.
Call(op, args, pre, err, ret) ==
    [op |-> op, args |-> args, pre |-> pre, err |-> err, ret |-> ret]

\* No call has returned that the caller has not read yet.
Ready == Call("ready", <<>>, NoGrid, OK, Void)

\* Grid grid(width, height); World world;
InitGrid ==
    \E width \in 0..GridMaxW, height \in 0..GridMaxH :
        /\ grid = Grid(width, height)
        /\ current = World(0, 0).current
        /\ next = World(0, 0).next
        /\ last = Call("Grid", <<width, height>>, NoGrid, OK, Void)
        /\ pc = 0
        /\ file = <<>>

\* Grid grid; and one of World world; World world(square_size);
\* World world(width, height); World world(initial_state);
InitWorld ==
    /\ grid = Grid(0, 0)
    /\ pc = 0
    /\ file = <<>>
    /\ \/ /\ current = World(0, 0).current
          /\ next = World(0, 0).next
          /\ last = Call("World()", <<>>, NoGrid, OK, Void)
       \/ \E square_size \in 0..Min(WorldMaxW, WorldMaxH) :
          /\ current = World(square_size, square_size).current
          /\ next = World(square_size, square_size).next
          /\ last = Call("World(square_size)", <<square_size>>, NoGrid, OK, Void)
       \/ \E width \in 0..WorldMaxW, height \in 0..WorldMaxH :
          /\ current = World(width, height).current
          /\ next = World(width, height).next
          /\ last = Call("World(width, height)", <<width, height>>, NoGrid, OK, Void)
       \/ \E initial_state \in Grids(WorldMaxW, WorldMaxH) :
          /\ current = WorldFrom(initial_state).current
          /\ next = WorldFrom(initial_state).next
          /\ last = Call("World(initial_state)", <<initial_state>>, NoGrid, OK, Void)

\* The caller has read the outcome of the last call.
Return ==
    /\ last.op # Ready.op
    /\ last' = Ready
    /\ UNCHANGED <<grid, current, next, pc, file>>

\* grid.get(x, y)
GridGet ==
    /\ last.op = Ready.op
    /\ \E x \in -1..GridMaxW, y \in -1..GridMaxH :
        \E r \in {get(grid, x, y)} :
            /\ grid' = grid
            /\ last' = Call("get", <<x, y>>, grid, r.err, r.val)
    /\ UNCHANGED <<current, next, pc, file>>

\* grid.set(x, y, value)
GridSet ==
    /\ last.op = Ready.op
    /\ \E x \in -1..GridMaxW, y \in -1..GridMaxH, value \in Cell :
        \E r \in {set(grid, x, y, value)} :
            /\ grid' = r.g
            /\ last' = Call("set", <<x, y, value>>, grid, r.err, Void)
    /\ UNCHANGED <<current, next, pc, file>>

\* Cell cell = grid(x, y)
GridCallRead ==
    /\ last.op = Ready.op
    /\ \E x \in -1..GridMaxW, y \in -1..GridMaxH :
        \E r \in {CallRead(grid, x, y)} :
            /\ grid' = grid
            /\ last' = Call("operator()", <<x, y>>, grid, r.err, r.val)
    /\ UNCHANGED <<current, next, pc, file>>

\* grid(x, y) = value
GridCallAssign ==
    /\ last.op = Ready.op
    /\ \E x \in -1..GridMaxW, y \in -1..GridMaxH, value \in Cell :
        \E r \in {CallAssign(grid, x, y, value)} :
            /\ grid' = r.g
            /\ last' = Call("operator()=", <<x, y, value>>, grid, r.err, Void)
    /\ UNCHANGED <<current, next, pc, file>>

\* grid.resize(new_width, new_height)
GridResize ==
    /\ last.op = Ready.op
    /\ \E new_width \in 0..GridMaxW, new_height \in 0..GridMaxH :
        \E r \in {resize(grid, new_width, new_height)} :
            /\ grid' = r.g
            /\ last' = Call("resize", <<new_width, new_height>>, grid, r.err, Void)
    /\ UNCHANGED <<current, next, pc, file>>

\* grid.crop(x0, y0, x1, y1)
GridCrop ==
    /\ last.op = Ready.op
    /\ \E x0 \in -1..(grid.width + 1), x1 \in -1..(grid.width + 1),
          y0 \in -1..(grid.height + 1), y1 \in -1..(grid.height + 1) :
        \E r \in {crop(grid, x0, y0, x1, y1)} :
            /\ grid' = r.g
            /\ last' = Call("crop", <<x0, y0, x1, y1>>, grid, r.err, r.ret)
    /\ UNCHANGED <<current, next, pc, file>>

\* grid.merge(other, x0, y0)
GridMerge ==
    /\ last.op = Ready.op
    /\ \E other \in Others(OtherMaxW, OtherMaxH),
          x0 \in -1..(grid.width + 1), y0 \in -1..(grid.height + 1) :
        \E r \in {merge(grid, other, x0, y0)} :
            /\ grid' = r.g
            /\ last' = Call("merge", <<other, x0, y0>>, grid, r.err, Void)
    /\ UNCHANGED <<current, next, pc, file>>

\* grid.merge(other, x0, y0, alive_only)
GridMergeAliveOnly ==
    /\ last.op = Ready.op
    /\ \E other \in Others(OtherMaxW, OtherMaxH),
          x0 \in -1..(grid.width + 1), y0 \in -1..(grid.height + 1),
          alive_only \in BOOLEAN :
        \E r \in {merge_alive_only(grid, other, x0, y0, alive_only)} :
            /\ grid' = r.g
            /\ last' = Call("merge alive_only", <<other, x0, y0, alive_only>>,
                            grid, r.err, Void)
    /\ UNCHANGED <<current, next, pc, file>>

\* grid.rotate(rotation)
GridRotate ==
    /\ last.op = Ready.op
    /\ \E rotation \in (-MaxRot)..MaxRot :
        \E r \in {rotate(grid, rotation)} :
            /\ grid' = grid
            /\ last' = Call("rotate", <<rotation>>, grid, r.err, r.ret)
    /\ UNCHANGED <<current, next, pc, file>>

\* world.resize(square_size)
WorldResizeSquare ==
    /\ last.op = Ready.op
    /\ \E square_size \in 0..Min(WorldMaxW, WorldMaxH) :
        \E r \in {World_resize(world, square_size, square_size)} :
            /\ current' = r.w.current
            /\ next' = r.w.next
            /\ last' = Call("World::resize", <<square_size, square_size>>,
                            world, r.err, Void)
    /\ UNCHANGED <<grid, pc, file>>

\* world.resize(new_width, new_height)
WorldResize ==
    /\ last.op = Ready.op
    /\ \E new_width \in 0..WorldMaxW, new_height \in 0..WorldMaxH :
        \E r \in {World_resize(world, new_width, new_height)} :
            /\ current' = r.w.current
            /\ next' = r.w.next
            /\ last' = Call("World::resize", <<new_width, new_height>>,
                            world, r.err, Void)
    /\ UNCHANGED <<grid, pc, file>>

\* world.count_alive_neighbours(x, y, toroidal), for a cell of the world
WorldCountAliveNeighbours ==
    /\ last.op = Ready.op
    /\ \E x \in 0..(current.width - 1), y \in 0..(current.height - 1),
          toroidal \in BOOLEAN :
        \E r \in {count_alive_neighbours(current, x, y, toroidal)} :
            last' = Call("count_alive_neighbours", <<x, y, toroidal>>,
                         world, r.err, r.val)
    /\ UNCHANGED <<grid, current, next, pc, file>>

\* world.step(toroidal)
WorldStep ==
    /\ last.op = Ready.op
    /\ \E toroidal \in BOOLEAN :
        \E r \in {step(world, toroidal)} :
            /\ current' = r.w.current
            /\ next' = r.w.next
            /\ last' = Call("step", <<toroidal>>, world, r.err, Void)
    /\ UNCHANGED <<grid, pc, file>>

\* world.step()
WorldStepDefault ==
    /\ last.op = Ready.op
    /\ \E r \in {step(world, FALSE)} :
           /\ current' = r.w.current
           /\ next' = r.w.next
           /\ last' = Call("step()", <<>>, world, r.err, Void)
    /\ UNCHANGED <<grid, pc, file>>

\* world.advance(steps, toroidal)
WorldAdvance ==
    /\ last.op = Ready.op
    /\ \E steps \in 0..MaxSteps, toroidal \in BOOLEAN :
        \E r \in {advance(world, steps, toroidal)} :
            /\ current' = r.w.current
            /\ next' = r.w.next
            /\ last' = Call("advance", <<steps, toroidal>>, world, r.err, Void)
    /\ UNCHANGED <<grid, pc, file>>

\* world.advance(steps)
WorldAdvanceDefault ==
    /\ last.op = Ready.op
    /\ \E steps \in 0..MaxSteps :
        \E r \in {advance(world, steps, FALSE)} :
            /\ current' = r.w.current
            /\ next' = r.w.next
            /\ last' = Call("advance(steps)", <<steps>>, world, r.err, Void)
    /\ UNCHANGED <<grid, pc, file>>

\* The calls on the Grid object, merge left out.
NextGrid ==
    \/ Return
    \/ GridGet
    \/ GridSet
    \/ GridCallRead
    \/ GridCallAssign
    \/ GridResize
    \/ GridCrop
    \/ GridRotate

\* Every call on the Grid object.
NextGridAll ==
    \/ NextGrid
    \/ GridMerge
    \/ GridMergeAliveOnly

\* The calls on the World object.
NextWorld ==
    \/ Return
    \/ WorldResizeSquare
    \/ WorldResize
    \/ WorldCountAliveNeighbours
    \/ WorldStep
    \/ WorldStepDefault
    \/ WorldAdvance
    \/ WorldAdvanceDefault

SpecGrid == InitGrid /\ [][NextGrid]_vars

SpecGridAll == InitGrid /\ [][NextGridAll]_vars

SpecWorld == InitWorld /\ [][NextWorld]_vars

\* Grid grid(width, height) for the targets of a merge, which may be
\* taller than they are wide.
InitTall ==
    \E width \in 0..TallMaxW, height \in 0..TallMaxH :
        /\ grid = Grid(width, height)
        /\ current = World(0, 0).current
        /\ next = World(0, 0).next
        /\ last = Call("Grid", <<width, height>>, NoGrid, OK, Void)
        /\ pc = 0
        /\ file = <<>>

\* The calls that fill a target and merge another grid into it.
NextTall ==
    \/ Return
    \/ GridSet
    \/ GridMerge
    \/ GridMergeAliveOnly

SpecTall == InitTall /\ [][NextTall]_vars

\* The glider scenario: Grid grid(width, height); grid.merge(Zoo::glider(),
\* x0, y0); World world(grid); for a world of 6x6 cells or more and every
\* place that leaves the glider a dead cell of border on each side and a
\* cell of travel.
InitGlider ==
    \E width \in 6..GliderMaxW, height \in 6..GliderMaxH :
        \E x0 \in 1..(width - 5), y0 \in 1..(height - 5) :
            /\ grid = merge(Grid(width, height), Zoo_glider, x0, y0).g
            /\ current = WorldFrom(grid).current
            /\ next = WorldFrom(grid).next
            /\ last = Call("World(initial_state)", <<grid>>, NoGrid, OK, Void)
            /\ pc = 0
            /\ file = <<>>

\* world.step(), the next of the scenario's calls
ScenarioStep ==
    /\ last.op = Ready.op
    /\ pc < GliderMaxSteps
    /\ \E r \in {step(world, FALSE)} :
           /\ current' = r.w.current
           /\ next' = r.w.next
           /\ last' = Call("step()", <<>>, world, r.err, Void)
    /\ pc' = pc + 1
    /\ UNCHANGED <<grid, file>>

\* The calls of the glider scenario.
NextGlider ==
    \/ Return
    \/ ScenarioStep

SpecGlider == InitGlider /\ [][NextGlider]_vars

\* The data bytes of the binary files no save wrote: every sequence of up
\* to n bytes, each all zeros, a one in the lowest bit, or all ones.
RECURSIVE BinaryData(_)
BinaryData(n) ==
    IF n = 0
    THEN {<<>>}
    ELSE BinaryData(n - 1)
             \cup {Append(d, b) : d \in {e \in BinaryData(n - 1) : Len(e) = n - 1},
                                  b \in {0, 1, 255}}

\* The binary files no save wrote: the two ints of a width and a height
\* and then the data bytes, too few of them or enough.
BinaryFiles ==
    {IntBytes(width) \o IntBytes(height) \o data :
        width \in 0..BinMaxW, height \in 0..BinMaxH, data \in BinaryData(BinMaxData)}

\* A grid with its cells set and the file Zoo::save_binary(path, Grid())
\* left at the path, or an empty grid and a file at the path that came
\* from elsewhere.
InitBinary ==
    /\ \/ /\ grid \in Grids(BinMaxW, BinMaxH)
          /\ file = save_binary(Grid(0, 0)).file
       \/ /\ grid = Grid(0, 0)
          /\ file \in BinaryFiles
    /\ current = World(0, 0).current
    /\ next = World(0, 0).next
    /\ last = Ready
    /\ pc = 0

\* Zoo::save_binary(path, grid)
ZooSaveBinary ==
    /\ last.op = Ready.op
    /\ \E r \in {save_binary(grid)} :
           /\ file' = r.file
           /\ last' = Call("save_binary", <<>>, grid, r.err, Void)
    /\ UNCHANGED <<grid, current, next, pc>>

\* Zoo::load_binary(path)
ZooLoadBinary ==
    /\ last.op = Ready.op
    /\ \E r \in {load_binary(file)} :
           last' = Call("load_binary", <<>>, grid, r.err, r.ret)
    /\ UNCHANGED <<grid, current, next, pc, file>>

\* The calls that write and read a binary file.
NextBinary ==
    \/ Return
    \/ ZooSaveBinary
    \/ ZooLoadBinary

SpecBinary == InitBinary /\ [][NextBinary]_vars

\* A text with one character replaced or removed, and the text itself.
Edits(text) ==
    {text}
        \cup {[text EXCEPT ![p] = c] : p \in 1..Len(text), c \in {"x", "#", " ", "\n"}}
        \cup {SubSeq(text, 1, p - 1) \o SubSeq(text, p + 1, Len(text)) :
                 p \in 1..Len(text)}

\* The text files read: what save_ascii writes for a grid, as written or
\* with one character replaced or removed.
AsciiFiles ==
    UNION {Edits(save_ascii(g).file) : g \in Grids(AsciiMaxW, AsciiMaxH)}

\* A grid with its cells set and the file Zoo::save_ascii(path, Grid())
\* left at the path, or an empty grid and a file at the path that came
\* from elsewhere.
InitAscii ==
    /\ \/ /\ grid \in Grids(AsciiMaxW, AsciiMaxH)
          /\ file = save_ascii(Grid(0, 0)).file
       \/ /\ grid = Grid(0, 0)
          /\ file \in AsciiFiles
    /\ current = World(0, 0).current
    /\ next = World(0, 0).next
    /\ last = Ready
    /\ pc = 0

\* Zoo::save_ascii(path, grid)
ZooSaveAscii ==
    /\ last.op = Ready.op
    /\ \E r \in {save_ascii(grid)} :
           /\ file' = r.file
           /\ last' = Call("save_ascii", <<>>, grid, r.err, Void)
    /\ UNCHANGED <<grid, current, next, pc>>

\* Zoo::load_ascii(path)
ZooLoadAscii ==
    /\ last.op = Ready.op
    /\ \E r \in {load_ascii(file)} :
           last' = Call("load_ascii", <<>>, grid, r.err, r.ret)
    /\ UNCHANGED <<grid, current, next, pc, file>>

\* The calls that write and read a text file.
NextAscii ==
    \/ Return
    \/ ZooSaveAscii
    \/ ZooLoadAscii

SpecAscii == InitAscii /\ [][NextAscii]_vars

\* world.get_state().set(x, y, value)
WorldStateSet ==
    /\ last.op = Ready.op
    /\ \E x \in 0..WorldMaxW, y \in 0..WorldMaxH, value \in Cell :
        \E r \in {set(get_state(world), x, y, value)} :
            /\ current' = r.g
            /\ last' = Call("get_state().set", <<x, y, value>>, world, r.err, Void)
    /\ UNCHANGED <<grid, next, pc, file>>

\* world.get_state().resize(new_width, new_height)
WorldStateResize ==
    /\ last.op = Ready.op
    /\ \E new_width \in 0..WorldMaxW, new_height \in 0..WorldMaxH :
        \E r \in {resize(get_state(world), new_width, new_height)} :
            /\ current' = r.g
            /\ last' = Call("get_state().resize", <<new_width, new_height>>,
                            world, r.err, Void)
    /\ UNCHANGED <<grid, next, pc, file>>

\* The calls on the World object and on the grid get_state returns.
NextState ==
    \/ Return
    \/ WorldStateSet
    \/ WorldStateResize
    \/ WorldStep

SpecState == InitWorld /\ [][NextState]_vars

\* Every cell of the first and last row and of the first and last column
\* of g is DEAD.
DeadBorder(g) ==
    \A x \in 0..(g.width - 1), y \in 0..(g.height - 1) :
        (x = 0 \/ x = g.width - 1 \/ y = 0 \/ y = g.height - 1) =>
            CallRead(g, x, y).val = DEAD

\* The grids of width x height whose first and last row and first and
\* last column are DEAD: any cells strictly inside.
DeadBordered(width, height) ==
    LET inside == {t \in 1..(width * height) :
                      /\ (t - 1) % width \in 1..(width - 2)
                      /\ (t - 1) \div width \in 1..(height - 2)}
    IN  {[width |-> width, height |-> height,
          grid |-> [t \in 1..(width * height) |->
                       IF t \in alive THEN ALIVE ELSE DEAD]] :
            alive \in SUBSET inside}

\* Grid grid; World world(initial_state); for an initial state with a
\* DEAD border.
InitBorder ==
    \E width \in 0..BorderMaxW, height \in 0..BorderMaxH :
        \E initial_state \in DeadBordered(width, height) :
            /\ grid = Grid(0, 0)
            /\ current = WorldFrom(initial_state).current
            /\ next = WorldFrom(initial_state).next
            /\ last = Call("World(initial_state)", <<initial_state>>, NoGrid, OK, Void)
            /\ pc = 0
            /\ file = <<>>

\* world.step(toroidal) of a world whose border is DEAD.
BorderStep ==
    /\ DeadBorder(current)
    /\ WorldStep

\* The steps, toroidal and not, of a world while its border is DEAD.
NextBorder ==
    \/ Return
    \/ BorderStep

SpecBorder == InitBorder /\ [][NextBorder]_vars

\* grid.merge(grid, x0, y0, alive_only): the other grid is the target.
GridMergeSelf ==
    /\ last.op = Ready.op
    /\ \E x0 \in -1..(grid.width + 1), y0 \in -1..(grid.height + 1),
          alive_only \in BOOLEAN :
        \E r \in {merge_self(grid, x0, y0, alive_only)} :
            /\ grid' = r.g
            /\ last' = Call("merge self", <<grid, x0, y0, alive_only>>,
                            grid, r.err, Void)
    /\ UNCHANGED <<current, next, pc, file>>

\* The calls that fill a grid and merge into it another grid or itself.
NextAlias ==
    \/ Return
    \/ GridSet
    \/ GridMerge
    \/ GridMergeAliveOnly
    \/ GridMergeSelf

SpecAlias == InitGrid /\ [][NextAlias]_vars

(***************************************************************************)
(* The properties. A cell of a grid is named by its coordinates, row major *)
(* as the data model has it.                                               *)
(***************************************************************************)

\* The cell at (x, y) of a grid: index y*width + x of its cells.
CellAt(g, x, y) == g.grid[(y * g.width) + x + 1]

\* Whether (x, y) is a coordinate of the grid.
InGrid(g, x, y) == x \in 0..(g.width - 1) /\ y \in 0..(g.height - 1)

\* The eight offsets of the 3x3 neighbourhood, the centre left out.
Offsets == ({-1, 0, 1} \X {-1, 0, 1}) \ {<<0, 0>>}

\* The number of alive neighbours of (x, y): outside the grid is DEAD, or,
\* on a torus, the coordinate is taken modulo the width and the height
\* (% is the non-negative remainder).
AliveNeighbours(g, x, y, toroidal) ==
    Cardinality({d \in Offsets :
        IF toroidal
        THEN CellAt(g, (x + d[1]) % g.width, (y + d[2]) % g.height) = ALIVE
        ELSE /\ InGrid(g, x + d[1], y + d[2])
             /\ CellAt(g, x + d[1], y + d[2]) = ALIVE})

\* The Game of Life successor of cell (x, y).
LifeSuccessor(g, x, y, toroidal) ==
    LET n == AliveNeighbours(g, x, y, toroidal)
    IN  IF \/ (CellAt(g, x, y) = DEAD /\ n = 3)
           \/ (CellAt(g, x, y) = ALIVE /\ n \in {2, 3})
        THEN ALIVE
        ELSE DEAD

\* The last call was a step; its topology.
LastIsStep == last.op \in {"step", "step()"}
LastToroidal == IF last.op = "step" THEN last.args[1] ELSE FALSE

\* C1: after step(toroidal) every cell of current is the Game of Life
\* successor of that cell in the grid before the step: ALIVE exactly when it
\* was DEAD with 3 alive neighbours or ALIVE with 2 or 3, for both
\* topologies.
C1_StepIsLifeSuccessor ==
    LastIsStep =>
        /\ last.err = OK
        /\ current.width = last.pre.current.width
        /\ current.height = last.pre.current.height
        /\ \A x \in 0..(current.width - 1), y \in 0..(current.height - 1) :
               CellAt(current, x, y)
                   = LifeSuccessor(last.pre.current, x, y, LastToroidal)

\* A step in which a dead cell with three alive neighbours was born and an
\* alive cell lived on.
C1_Witness ==
    /\ LastIsStep
    /\ \E x \in 0..(current.width - 1), y \in 0..(current.height - 1) :
           /\ CellAt(last.pre.current, x, y) = DEAD
           /\ AliveNeighbours(last.pre.current, x, y, LastToroidal) = 3
           /\ CellAt(current, x, y) = ALIVE
    /\ \E x \in 0..(current.width - 1), y \in 0..(current.height - 1) :
           /\ CellAt(last.pre.current, x, y) = ALIVE
           /\ CellAt(current, x, y) = ALIVE

\* C2: count_alive_neighbours(x, y, false) is the number of the eight
\* offsets whose coordinate lies inside the grid and is ALIVE in current;
\* coordinates outside the grid count for nothing and the result is in 0..8.
C2_CountNonToroidal ==
    (last.op = "count_alive_neighbours" /\ ~last.args[3]) =>
        /\ last.err = OK
        /\ last.ret = AliveNeighbours(current, last.args[1], last.args[2], FALSE)
        /\ last.ret \in 0..8

\* A non-toroidal count for a cell on the edge of the grid that has alive
\* neighbours inside it.
C2_Witness ==
    /\ last.op = "count_alive_neighbours"
    /\ ~last.args[3]
    /\ last.args[1] = 0
    /\ last.ret >= 2

\* C3: count_alive_neighbours(x, y, true) is the number of the eight
\* offsets (dx, dy) for which current((x+dx) mod width, (y+dy) mod height)
\* is ALIVE, mod being the non-negative remainder, for every width and
\* height from 1 on.
C3_CountToroidal ==
    (last.op = "count_alive_neighbours" /\ last.args[3]) =>
        /\ last.err = OK
        /\ last.ret = AliveNeighbours(current, last.args[1], last.args[2], TRUE)

\* A toroidal count at column 0 of a world two cells wide whose only alive
\* cells are in column 1: every one of them is reached by a wrap.
C3_Witness ==
    /\ last.op = "count_alive_neighbours"
    /\ last.args[3]
    /\ current.width = 2
    /\ last.args[1] = 0
    /\ \A y \in 0..(current.height - 1) : CellAt(current, 0, y) = DEAD
    /\ last.ret > 0

\* C4: current and next have equal width and equal height after every
\* construction, resize (one that throws included), step and advance.
C4_BuffersSameSize ==
    /\ current.width = next.width
    /\ current.height = next.height

\* A World::resize that threw.
C4_Witness ==
    /\ last.op = "World::resize"
    /\ last.err # OK

\* C5: Grid::resize(nw, nh) completes for every new size, leaves the grid
\* nw x nh, keeps every cell of the overlap at its coordinates and leaves
\* every other cell DEAD: shrink, grow and mixed alike.
C5_ResizeKeepsOverlap ==
    last.op = "resize" =>
        /\ last.err = OK
        /\ grid.width = last.args[1]
        /\ grid.height = last.args[2]
        /\ Len(grid.grid) = last.args[1] * last.args[2]
        /\ \A x \in 0..(last.args[1] - 1), y \in 0..(last.args[2] - 1) :
               CellAt(grid, x, y)
                   = IF /\ x < Min(last.pre.width, last.args[1])
                        /\ y < Min(last.pre.height, last.args[2])
                     THEN CellAt(last.pre, x, y)
                     ELSE DEAD

\* The counts of a grid agree with its dimensions.
CountsAgree(g) ==
    /\ g.width >= 0
    /\ g.height >= 0
    /\ Len(g.grid) = g.width * g.height
    /\ get_total_cells(g) = g.width * g.height
    /\ get_alive_cells(g) + get_dead_cells(g) = get_total_cells(g)
    /\ get_alive_cells(g) >= 0
    /\ get_dead_cells(g) >= 0

\* C6: every grid reached by construction, set, resize, crop, merge and
\* rotate calls, failing calls included, stores width*height cells, and its
\* alive and dead counts are non-negative and add up to width*height. The
\* grids crop and rotate return are such grids too.
C6_CountsAgree ==
    /\ CountsAgree(grid)
    /\ (last.op \in {"crop", "rotate"} /\ last.err = OK) => CountsAgree(last.ret)

\* A merge that threw after it had written cells of the target.
C6_Witness ==
    /\ last.op \in {"merge", "merge alive_only"}
    /\ last.err # OK
    /\ grid # last.pre

\* The last call was one of the cell accessors.
LastIsAccess == last.op \in {"get", "set", "operator()", "operator()="}

\* C7: get, set and operator() throw whenever x is outside [0, width) or y
\* is outside [0, height), without wrapping or clamping the coordinate, and
\* the call that throws leaves the dimensions and every cell as they were.
C7_AccessOutOfBoundsThrows ==
    LastIsAccess =>
        /\ ~InGrid(last.pre, last.args[1], last.args[2]) => last.err # OK
        /\ last.err # OK => grid = last.pre

\* A set at x = width of a grid with more than one row and an alive cell:
\* the index y*width + x is the index of a stored cell, and the call threw.
C7_Witness ==
    /\ last.op = "set"
    /\ last.args[1] = last.pre.width
    /\ last.args[2] = 0
    /\ last.pre.height > 1
    /\ last.pre.width > 0
    /\ get_alive_cells(last.pre) > 0
    /\ last.err # OK

\* The window of the last crop lies in the grid and is not inverted.
CropWindowValid ==
    /\ 0 <= last.args[1]
    /\ last.args[1] <= last.args[3]
    /\ last.args[3] <= last.pre.width
    /\ 0 <= last.args[2]
    /\ last.args[2] <= last.args[4]
    /\ last.args[4] <= last.pre.height

\* C8: for a window with 0 <= x0 <= x1 <= width and 0 <= y0 <= y1 <= height,
\* crop(x0, y0, x1, y1) returns a grid of size (x1-x0) x (y1-y0) whose cell
\* (i, j) is the cell (x0+i, y0+j) of the receiver before the call.
C8_CropReturnsWindow ==
    (last.op = "crop" /\ CropWindowValid) =>
        /\ last.err = OK
        /\ last.ret.width = last.args[3] - last.args[1]
        /\ last.ret.height = last.args[4] - last.args[2]
        /\ Len(last.ret.grid) = last.ret.width * last.ret.height
        /\ \A i \in 0..(last.ret.width - 1), j \in 0..(last.ret.height - 1) :
               CellAt(last.ret, i, j)
                   = CellAt(last.pre, last.args[1] + i, last.args[2] + j)

\* A crop whose window starts right of column 0 and returns alive and dead
\* cells.
C8_Witness ==
    /\ last.op = "crop"
    /\ CropWindowValid
    /\ last.args[1] > 0
    /\ \E t \in 1..Len(last.ret.grid) : last.ret.grid[t] = ALIVE
    /\ \E t \in 1..Len(last.ret.grid) : last.ret.grid[t] = DEAD

\* C9: a crop that completes leaves the receiver's width, height and every
\* cell as they were before the call.
C9_CropLeavesReceiver ==
    (last.op = "crop" /\ last.err = OK) => grid = last.pre

\* C10: crop throws whenever x0 or x1 is outside [0, width], y0 or y1 is
\* outside [0, height], x1 < x0 or y1 < y0; a crop that throws returns no
\* grid and leaves the receiver's dimensions and cells as they were.
C10_CropRejectsBadWindow ==
    last.op = "crop" =>
        /\ ~CropWindowValid => last.err # OK
        /\ last.err # OK => (last.ret = NoGrid /\ grid = last.pre)

\* A crop of a grid with cells whose window lies in the grid and is
\* inverted on the x axis only: it threw.
C10_Witness ==
    /\ last.op = "crop"
    /\ last.pre.width > 0
    /\ last.pre.height > 0
    /\ last.args[1] \in 0..last.pre.width
    /\ last.args[3] \in 0..last.pre.width
    /\ last.args[3] < last.args[1]
    /\ last.args[2] \in 0..last.pre.height
    /\ last.args[4] \in last.args[2]..last.pre.height
    /\ last.err # OK

\* The last call was one of the merge overloads; its arguments.
LastIsMerge == last.op \in {"merge", "merge alive_only"}
MergeOther == last.args[1]
MergeX0 == last.args[2]
MergeY0 == last.args[3]

\* The other grid of the last merge lies entirely in the target at its
\* offset.
MergeFits ==
    /\ 0 <= MergeX0
    /\ MergeX0 + MergeOther.width <= last.pre.width
    /\ 0 <= MergeY0
    /\ MergeY0 + MergeOther.height <= last.pre.height

\* C11: merge(other, x0, y0) of an other that fits entirely in the target
\* at (x0, y0) completes, and afterwards the target cell (x0+i, y0+j) is
\* the cell (i, j) of other, DEAD cells included, on square and non-square
\* targets.
C11_MergeCopiesOther ==
    (last.op = "merge" /\ MergeFits) =>
        /\ last.err = OK
        /\ \A i \in 0..(MergeOther.width - 1), j \in 0..(MergeOther.height - 1) :
               CellAt(grid, MergeX0 + i, MergeY0 + j) = CellAt(MergeOther, i, j)

\* C12: a merge, plain or alive-only, of an other that does not fit in the
\* target at its offset throws and leaves the target's dimensions and
\* every cell as they were.
C12_MergeRejectsUnfit ==
    (LastIsMerge /\ ~MergeFits) =>
        /\ last.err # OK
        /\ grid = last.pre

\* C13: after a fitting merge(other, x0, y0, true) that completes, the
\* target cell (x0+i, y0+j) is ALIVE exactly when it was ALIVE before the
\* call or the cell (i, j) of other is ALIVE.
C13_MergeAliveOnlyIsOr ==
    (last.op = "merge alive_only" /\ last.args[4] /\ MergeFits /\ last.err = OK) =>
        \A i \in 0..(MergeOther.width - 1), j \in 0..(MergeOther.height - 1) :
            (CellAt(grid, MergeX0 + i, MergeY0 + j) = ALIVE)
                <=> \/ CellAt(last.pre, MergeX0 + i, MergeY0 + j) = ALIVE
                    \/ CellAt(MergeOther, i, j) = ALIVE

\* The last call was a rotate; its argument.
LastIsRotate == last.op = "rotate"
Rotation == last.args[1]

\* C14: rotate(k) returns the grid rotate(k mod 4) returns, k mod 4 in
\* {0, 1, 2, 3}, for positive, negative and zero k; for a multiple of 4 it
\* is a copy of the receiver.
C14_RotateIsModFour ==
    LastIsRotate =>
        /\ last.err = OK
        /\ last.ret = rotate(last.pre, Rotation % 4).ret
        /\ (Rotation % 4 = 0) => last.ret = last.pre

\* A rotate by a negative rotation of more than a full turn, whose result
\* is not the receiver, and one by a non-zero multiple of 4.
C14_Witness ==
    /\ LastIsRotate
    /\ \/ (Rotation < -4 /\ last.ret # last.pre /\ last.pre.width # last.pre.height)
       \/ (Rotation = 4 /\ get_alive_cells(last.pre) > 0)

\* What rotate(1) returns for a grid g.
RotateOnce(g) == rotate(g, 1).ret

\* C15: for a grid g of any shape, a zero dimension included,
\* g.rotate(1).rotate(1).rotate(1).rotate(1) has the width, height and
\* cells of g.
C15_FourQuarterTurns ==
    (LastIsRotate /\ Rotation = 1) =>
        /\ last.err = OK
        /\ RotateOnce(RotateOnce(RotateOnce(last.ret))) = last.pre

\* A rotate(1) of a non-square grid with alive and dead cells that does
\* not return the receiver.
C15_Witness ==
    /\ LastIsRotate
    /\ Rotation = 1
    /\ last.pre.width # last.pre.height
    /\ get_alive_cells(last.pre) > 0
    /\ get_dead_cells(last.pre) > 0
    /\ last.ret # last.pre

\* C16: rotate leaves the receiver as it was; for a w x h receiver
\* rotate(1) returns the h x w grid with result(x, y) = source(y, h-1-x),
\* rotate(-1) and rotate(3) the h x w grid with
\* result(x, y) = source(w-1-y, x), and rotate(2) the w x h grid with
\* result(x, y) = source(w-1-x, h-1-y).
C16_RotateIsGeometric ==
    LastIsRotate =>
        LET w == last.pre.width
            h == last.pre.height
            r == last.ret
        IN  /\ grid = last.pre
            /\ Rotation = 1 =>
                   /\ last.err = OK /\ r.width = h /\ r.height = w
                   /\ Len(r.grid) = w * h
                   /\ \A x \in 0..(h - 1), y \in 0..(w - 1) :
                          CellAt(r, x, y) = CellAt(last.pre, y, (h - 1) - x)
            /\ Rotation \in {-1, 3} =>
                   /\ last.err = OK /\ r.width = h /\ r.height = w
                   /\ Len(r.grid) = w * h
                   /\ \A x \in 0..(h - 1), y \in 0..(w - 1) :
                          CellAt(r, x, y) = CellAt(last.pre, (w - 1) - y, x)
            /\ Rotation = 2 =>
                   /\ last.err = OK /\ r.width = w /\ r.height = h
                   /\ Len(r.grid) = w * h
                   /\ \A x \in 0..(w - 1), y \in 0..(h - 1) :
                          CellAt(r, x, y) = CellAt(last.pre, (w - 1) - x, (h - 1) - y)

\* A rotate(2) of a grid two cells high and two wide whose result is not
\* the receiver and not its mirror image either.
C16_Witness ==
    /\ LastIsRotate
    /\ Rotation = 2
    /\ last.pre.width = 2
    /\ last.pre.height = 2
    /\ last.ret # last.pre
    /\ CellAt(last.pre, 0, 0) # CellAt(last.pre, 0, 1)

\* C17: the number of normalisation steps of rotate does not grow with the
\* magnitude of the rotation: two rotations with the same residue modulo 4
\* take the same number of steps.
C17_RotateStepsConstant ==
    LastIsRotate =>
        \A k \in (-MaxRot)..MaxRot :
            (k % 4 = Rotation % 4) =>
                normalisation_steps(k) = normalisation_steps(Rotation)

\* The world n calls of step(toroidal) in a row leave, from world w.
RECURSIVE StepTimes(_, _, _)
StepTimes(w, n, toroidal) ==
    IF n = 0 THEN w ELSE StepTimes(step(w, toroidal).w, n - 1, toroidal)

\* C18: advance(steps, toroidal) leaves the world n calls of
\* step(toroidal) leave, for every steps >= 0 and both topologies;
\* advance(0, toroidal) leaves it as it was; advance(steps) and step() act
\* as with toroidal = false.
C18_AdvanceIsRepeatedStep ==
    /\ last.op = "advance" =>
           /\ last.err = OK
           /\ world = StepTimes(last.pre, last.args[1], last.args[2])
           /\ last.args[1] = 0 => world = last.pre
    /\ last.op = "advance(steps)" =>
           /\ last.err = OK
           /\ world = StepTimes(last.pre, last.args[1], FALSE)
    /\ last.op = "step()" =>
           /\ last.err = OK
           /\ world = StepTimes(last.pre, 1, FALSE)

\* An advance of two steps on a torus that changed the grid and that a
\* non-toroidal advance would have left elsewhere.
C18_Witness ==
    /\ last.op = "advance"
    /\ last.args = <<2, TRUE>>
    /\ current # last.pre.current
    /\ current # StepTimes(last.pre, 2, FALSE).current

\* C20: a World::resize(nw, nh) that completes leaves current as
\* Grid::resize(nw, nh) leaves the current of before the call, and next an
\* nw x nh grid of DEAD cells, whatever next held.
C20_WorldResizeRefinesGrid ==
    (last.op = "World::resize" /\ last.err = OK) =>
        /\ current = resize(last.pre.current, last.args[1], last.args[2]).g
        /\ next.width = last.args[1]
        /\ next.height = last.args[2]
        /\ Len(next.grid) = last.args[1] * last.args[2]
        /\ \A t \in 1..Len(next.grid) : next.grid[t] = DEAD

\* A World::resize that completed on a world whose next held alive cells
\* and whose current keeps an alive cell.
C20_Witness ==
    /\ last.op = "World::resize"
    /\ last.err = OK
    /\ get_alive_cells(last.pre.next) > 0
    /\ get_alive_cells(current) > 0
    /\ current # last.pre.current

\* The coordinates of the alive cells of a grid.
AliveSet(g) ==
    {c \in (0..(g.width - 1)) \X (0..(g.height - 1)) : CellAt(g, c[1], c[2]) = ALIVE}

\* C19: the glider placed in a dead non-toroidal world of 6x6 cells or
\* more, with a dead cell of border on every side and a cell of travel, is
\* after exactly 4 step() calls the same glider moved by (+1, +1): the
\* alive cells are the cells of the placed glider each moved by (+1, +1),
\* and there are 5 of them.
C19_GliderTranslates ==
    (pc = 4 /\ last.op = "step()") =>
        /\ last.err = OK
        /\ AliveSet(current) = {<<c[1] + 1, c[2] + 1>> : c \in AliveSet(grid)}
        /\ get_alive_cells(current) = 5

\* The fourth step() of the scenario in the 6x6 world, the glider placed at
\* (1, 1): the glider cell (1, 0) of the box has moved from (2, 1) to
\* (3, 2).
C19_Witness ==
    /\ pc = 4
    /\ last.op = "step()"
    /\ current.width = 6
    /\ current.height = 6
    /\ AliveSet(grid) = {<<2, 1>>, <<3, 2>>, <<1, 3>>, <<2, 3>>, <<3, 3>>}
    /\ CellAt(current, 3, 2) = ALIVE
    /\ CellAt(current, 2, 1) = DEAD

\* C21: a grid written with save_binary and read back with load_binary is
\* the grid that was written: same width, same height, same cells, for
\* cell counts that are multiples of 8 and for those that are not.
C21_BinaryRoundTrip ==
    (last.op = "load_binary" /\ file = save_binary(grid).file) =>
        /\ last.err = OK
        /\ last.ret = grid

\* The width and height a binary file declares, and the data bytes it
\* needs: ceil(width * height / 8).
DeclaredWidth == ReadInt(file, 1)
DeclaredHeight == ReadInt(file, 5)
NeededBytes == ((DeclaredWidth * DeclaredHeight) + 7) \div 8

\* C24: load_binary throws, and returns no grid, whenever the file holds
\* fewer than ceil(width * height / 8) data bytes after its 8-byte header.
C24_BinaryTruncationRejected ==
    (last.op = "load_binary" /\ Len(file) - 8 < NeededBytes) =>
        /\ last.err # OK
        /\ last.ret = NoGrid

\* Line k (from 1) of the text from position p on, without its newline;
\* empty if the text has no such line.
RECURSIVE NthLine(_, _, _)
NthLine(f, p, k) ==
    IF k = 1
    THEN SubSeq(f, p, LineEnd(f, p) - 1)
    ELSE IF LineEnd(f, p) > Len(f)
    THEN <<>>
    ELSE NthLine(f, LineEnd(f, p) + 1, k - 1)

\* The text the format prescribes for a grid: the header line and then
\* one line per row, a character per cell.
FormatText(g) ==
    /\ NthLine(file, 1, 1) = ToDecimal(g.width) \o <<" ">> \o ToDecimal(g.height)
    /\ \A y \in 0..(g.height - 1) :
           NthLine(file, 1, y + 2) = [x \in 1..g.width |-> CellAt(g, x - 1, y)]
    /\ Len(file) = Len(NthLine(file, 1, 1)) + 1 + (g.height * (g.width + 1))
    /\ file[Len(file)] = "\n"

\* C22: save_ascii writes the header line "<width> <height>" and then one
\* line of '#' and ' ' per row, and load_ascii of that text returns the
\* grid written, when the grid has positive width and height.
C22_AsciiRoundTrip ==
    /\ (last.op = "save_ascii" /\ grid.width > 0 /\ grid.height > 0) =>
           FormatText(grid)
    /\ (/\ last.op = "load_ascii"
        /\ grid.width > 0
        /\ grid.height > 0
        /\ file = save_ascii(grid).file) =>
           /\ last.err = OK
           /\ last.ret = grid

\* A grid with a row that begins with a DEAD cell and one that ends with a
\* DEAD cell, and with an ALIVE cell, was written and read back.
C22_Witness ==
    /\ last.op = "load_ascii"
    /\ file = save_ascii(grid).file
    /\ last.ret = grid
    /\ \E y \in 0..(grid.height - 1) : CellAt(grid, 0, y) = DEAD
    /\ \E y \in 0..(grid.height - 1) : CellAt(grid, grid.width - 1, y) = DEAD
    /\ \E x \in 0..(grid.width - 1), y \in 0..(grid.height - 1) :
           CellAt(grid, x, y) = ALIVE

\* The widths and heights whose header line the file starts with.
HeaderDims ==
    {d \in (1..(AsciiMaxW + 1)) \X (1..(AsciiMaxH + 1)) :
        NthLine(file, 1, 1) = ToDecimal(d[1]) \o <<" ">> \o ToDecimal(d[2])}

\* A cell position of a data row holds a character that is neither '#'
\* nor ' ', or no character at all.
BadCell(width, height) ==
    \E i \in 1..height, j \in 1..width :
        LET row == NthLine(file, 1, i + 1)
        IN  j > Len(row) \/ row[j] \notin {"#", " "}

\* C23: load_ascii throws, and returns no grid, whenever a cell position
\* of a data row holds a character other than '#' or ' ' or a data row has
\* fewer than width characters.
C23_AsciiRejectsBadCell ==
    last.op = "load_ascii" =>
        \A d \in HeaderDims :
            BadCell(d[1], d[2]) =>
                /\ last.err # OK
                /\ last.ret = NoGrid

\* A file whose data rows all have width characters, one of them an 'x',
\* was rejected.
C23_Witness ==
    /\ last.op = "load_ascii"
    /\ last.err # OK
    /\ \E d \in HeaderDims :
           /\ \A k \in 1..d[2] : Len(NthLine(file, 1, k + 1)) = d[1]
           /\ \E i \in 1..d[2], j \in 1..d[1] : NthLine(file, 1, i + 1)[j] = "x"

\* The count World::count_alive_neighbours returns for (x, y) in grid g
\* with cell (x, y) itself set to value.
CountWith(g, x, y, toroidal, value) ==
    count_alive_neighbours(CallAssign(g, x, y, value).g, x, y, toroidal).val

\* The offsets of the neighbourhood that wrap onto (x, y) itself on a
\* torus of the size of g.
SelfOffsets(g, x, y) ==
    {d \in Offsets : (x + d[1]) % g.width = x /\ (y + d[2]) % g.height = y}

\* The last call was count_alive_neighbours; its arguments.
LastIsCount == last.op = "count_alive_neighbours"
CountX == last.args[1]
CountY == last.args[2]
CountToroidal == last.args[3]

StepIterations(g) == g.width * g.height

\* From iteration k of the loops of World::step on, acc the two buffers
\* before it: every iteration leaves current the grid pre, and writes to
\* next, at its own cell only, the successor computed from pre.
RECURSIVE IterationsKeepCurrent(_, _, _, _)
IterationsKeepCurrent(acc, pre, toroidal, k) ==
    IF k >= StepIterations(pre)
    THEN TRUE
    ELSE LET after == step_body(acc, k % pre.width, k \div pre.width, toroidal)
         IN  /\ after.current = pre
             /\ after.next
                    = [acc.next EXCEPT
                          !.grid[k + 1] = LifeSuccessor(pre, k % pre.width,
                                                        k \div pre.width, toroidal)]
             /\ IterationsKeepCurrent(after, pre, toroidal, k + 1)

\* C26: step is double-buffered. After the copy and after every iteration
\* of the loops, current is the grid before the step; iteration k writes
\* to next, at its own cell only, the successor computed from the grid
\* before the step; current changes only at the swap, which makes it the
\* next the loops computed, and after the swap next is the grid before the
\* step.
C26_StepDoubleBuffered ==
    LastIsStep =>
        /\ step_partial(last.pre, LastToroidal, 0).current = last.pre.current
        /\ IterationsKeepCurrent(step_partial(last.pre, LastToroidal, 0),
                                 last.pre.current, LastToroidal, 0)
        /\ current = step_partial(last.pre, LastToroidal,
                                  StepIterations(last.pre.current)).next
        /\ next = last.pre.current

\* A step that changed a cell at the first iteration and another one at
\* the last: the later decisions were taken with the first write made.
C26_Witness ==
    /\ LastIsStep
    /\ StepIterations(last.pre.current) >= 2
    /\ current.grid[1] # last.pre.current.grid[1]
    /\ current.grid[Len(current.grid)] # last.pre.current.grid[Len(current.grid)]
    /\ next = last.pre.current

\* C27: no call made on the grid get_state returns changes the world: the
\* cells and the dimensions of current are what they were before the call,
\* and current and next have the same width and the same height.
C27_StateReadOnly ==
    /\ last.op \in {"get_state().set", "get_state().resize"} =>
           current = last.pre.current
    /\ current.width = next.width
    /\ current.height = next.height

\* The last call was a resize that grows no dimension or shrinks none.
LastIsSameDirectionResize ==
    /\ last.op = "resize"
    /\ \/ (last.args[1] >= last.pre.width /\ last.args[2] >= last.pre.height)
       \/ (last.args[1] <= last.pre.width /\ last.args[2] <= last.pre.height)

\* C28: Grid::resize(nw, nh) with nw >= width and nh >= height, or with
\* nw <= width and nh <= height, dimensions of zero included, completes,
\* leaves the grid nw x nh, keeps every cell of the overlap at its
\* coordinates and makes every new cell DEAD.
C28_SameDirectionResize ==
    LastIsSameDirectionResize =>
        /\ last.err = OK
        /\ grid.width = last.args[1]
        /\ grid.height = last.args[2]
        /\ Len(grid.grid) = grid.width * grid.height
        /\ \A x \in 0..(grid.width - 1), y \in 0..(grid.height - 1) :
               IF InGrid(last.pre, x, y)
               THEN CellAt(grid, x, y) = CellAt(last.pre, x, y)
               ELSE CellAt(grid, x, y) = DEAD

\* A grid 1 wide and 2 high with only its lower cell ALIVE was widened to
\* 2 x 2: the cell kept its coordinates, at another place of the vector.
C28_Witness ==
    /\ LastIsSameDirectionResize
    /\ last.pre.width = 1
    /\ last.pre.height = 2
    /\ CellAt(last.pre, 0, 0) = DEAD
    /\ CellAt(last.pre, 0, 1) = ALIVE
    /\ grid.width = 2
    /\ grid.height = 2
    /\ CellAt(grid, 0, 1) = ALIVE

\* C29: when the border of current is DEAD, step(true) and step(false) on
\* the same state leave the same current grid: the step made left what the
\* step of the other topology leaves.
C29_TopologiesAgreeOnDeadBorder ==
    (last.op = "step" /\ DeadBorder(last.pre.current)) =>
        /\ last.err = OK
        /\ current = step(last.pre, ~last.args[1]).w.current
        /\ step(last.pre, TRUE).w.current = step(last.pre, FALSE).w.current

\* A toroidal step of a world with a DEAD border and ALIVE cells next to
\* it, which changed the grid and left ALIVE cells.
C29_Witness ==
    /\ last.op = "step"
    /\ last.args[1]
    /\ DeadBorder(last.pre.current)
    /\ last.pre.current.width >= 3
    /\ last.pre.current.height >= 3
    /\ CellAt(last.pre.current, 1, 1) = ALIVE
    /\ current # last.pre.current
    /\ get_alive_cells(current) > 0

\* (x, y) lies in the footprint of the last merge.
InFootprint(x, y) ==
    /\ x \in MergeX0..(MergeX0 + MergeOther.width - 1)
    /\ y \in MergeY0..(MergeY0 + MergeOther.height - 1)

\* The last merge left the width, the height and every cell outside its
\* footprint as they were.
MergeKeepsFrame ==
    /\ grid.width = last.pre.width
    /\ grid.height = last.pre.height
    /\ \A x \in 0..(grid.width - 1), y \in 0..(grid.height - 1) :
           ~InFootprint(x, y) => CellAt(grid, x, y) = CellAt(last.pre, x, y)

\* C30: a merge, plain or alive-only, that completes leaves the target's
\* width and height and every target cell outside the footprint
\* unchanged, and the other grid as it was, also when the other grid is
\* the target itself.
C30_MergeFrame ==
    /\ (LastIsMerge /\ last.err = OK) => MergeKeepsFrame
    /\ (last.op = "merge self" /\ last.err = OK) =>
           /\ MergeKeepsFrame
           /\ grid = MergeOther

====
